---- MODULE Spec2Model ----
(***************************************************************************)
(* Model of the moragents dispatch layer:                                  *)
(*   - Delegator (delegator.py): load_agents, get_delegator_response,      *)
(*     delegate_chat, delegate_route;                                      *)
(*   - RealtimeSearchAgent (agents/realtime_search/agent.py);              *)
(*   - DCAAgent (agents/dca_agent/agent.py).                               *)
(* External parties (the language model, HTTP, the dca tools module, the   *)
(* importer) are inputs chosen with \E in the actions.                     *)
(***************************************************************************)
EXTENDS Integers, Sequences, FiniteSets, TLC

VARIABLES
    config,            \* Delegator.config["agents"]
    constructs,        \* per descriptor: import and construction succeed
    agents,            \* Delegator.agents: name -> class of the instance
    ret,               \* the last call on the Delegator and its outcome
    last_search_term,  \* RealtimeSearchAgent.last_search_term
    terms_passed,      \* history: the search_term of every perform_search call
    sret,              \* the last call on the RealtimeSearchAgent and its outcome
    dret               \* the last call on the DCAAgent and its outcome

delegator_vars == <<config, constructs, agents, ret>>
search_vars == <<last_search_term, terms_passed, sret>>
vars == <<config, constructs, agents, ret, last_search_term, terms_passed, sret, dret>>

\* ---------------------------------------------------------------- bounds
MaxAgents == 2
MaxCalls == 3

\* -------------------------------------------------------------- constants
None == "None"
DEFAULT_AGENT == "general purpose and context-based rag agent"
DCA_NAME == "dca agent"
SEARCH_NAME == "realtime search agent"
UNKNOWN_NAME == "unregistered agent"

\* names that descriptors of the configuration may carry
Names == {DCA_NAME, SEARCH_NAME, DEFAULT_AGENT}

\* the class a descriptor's path/class fields resolve to
ClassOf(n) ==
    IF n = DCA_NAME THEN "DCAAgent"
    ELSE IF n = SEARCH_NAME THEN "RealtimeSearchAgent"
    ELSE "AnyAgent"

Descriptors ==
    { [name |-> n, class |-> ClassOf(n), upload_required |-> u] :
        n \in Names, u \in BOOLEAN }

SeqsUpTo(S, n) == UNION { [1..k -> S] : k \in 0..n }

Distinct(cfg) == \A i, j \in 1..Len(cfg) : i # j => cfg[i].name # cfg[j].name

Configs == { cfg \in SeqsUpTo(Descriptors, MaxAgents) : Distinct(cfg) }

\* ---------------------------------------------------------------- agents
\* result of an agent method: body is the kind of payload, status the
\* HTTP-style code of a (payload, status) pair, 0 when a bare payload
NoResult == [body |-> None, status |-> 0]
Result(b, s) == [body |-> b, status |-> s]

\* hasattr(agent, method_name)
HasAttr(class, m) ==
    CASE class = "DCAAgent" ->
           m \in {"chat", "handle_request", "handle_function_call", "config"}
      [] class = "RealtimeSearchAgent" ->
           m \in {"chat", "perform_search", "synthesize_answer", "config"}
      [] OTHER -> m = "chat"

\* outcome of getattr(agent, m)(request); fault = a dependency of the
\* method (model, network, request parsing) raises an Exception
Invoke(class, m, fault) ==
    CASE m = "config" ->
           [called |-> FALSE, kind |-> "raise", exc |-> "TypeError", result |-> NoResult]
      [] m = "chat" /\ class = "DCAAgent" ->
           [called |-> TRUE, kind |-> "return", exc |-> None,
            result |-> IF fault THEN Result("error", 500) ELSE Result("message", 0)]
      [] m = "chat" /\ class = "RealtimeSearchAgent" ->
           [called |-> TRUE, kind |-> "return", exc |-> None,
            result |-> IF fault THEN Result("Error", 500) ELSE Result("message", 0)]
      [] m = "handle_request" /\ class = "DCAAgent" ->
           IF fault
           THEN [called |-> TRUE, kind |-> "raise", exc |-> "Exception", result |-> NoResult]
           ELSE [called |-> TRUE, kind |-> "return", exc |-> None, result |-> Result("tuple", 0)]
      [] OTHER ->
           IF fault
           THEN [called |-> TRUE, kind |-> "raise", exc |-> "Exception", result |-> NoResult]
           ELSE [called |-> TRUE, kind |-> "return", exc |-> None, result |-> Result("message", 0)]

\* -------------------------------------------------------------- Delegator
Put(f, k, v) == [x \in (DOMAIN f) \cup {k} |-> IF x = k THEN v ELSE f[x]]
EmptyRegistry == [x \in {} |-> None]

\* variant: the first failing descriptor ends the loop
RECURSIVE load_agents_from_abort(_, _, _, _)
load_agents_from_abort(cfg, ok, i, acc) ==
    IF i > Len(cfg) \/ ~ok[i] THEN acc
    ELSE load_agents_from_abort(cfg, ok, i + 1, Put(acc, cfg[i].name, cfg[i].class))

RECURSIVE load_agents_from(_, _, _, _)
load_agents_from(cfg, ok, i, acc) ==
    IF i > Len(cfg) THEN acc
    ELSE load_agents_from(cfg, ok, i + 1,
            IF ok[i] THEN Put(acc, cfg[i].name, cfg[i].class) ELSE acc)

load_agents(cfg, ok) == load_agents_from(cfg, ok, 1, EmptyRegistry)

\* the record of the last call made on the Delegator
NoCall ==
    [op |-> "init", agent_name |-> None, method_name |-> None,
     upload_state |-> FALSE, tool_calls |-> <<>>, available_agents |-> <<>>,
     llm_calls |-> 0, invoked |-> <<>>, kind |-> "none", exc |-> None,
     agent |-> None, error |-> None, status |-> 0, result |-> NoResult]

\* variant: upload-required agents are dropped whatever the upload state
available_agents_strict(cfg, upload_state) ==
    SelectSeq([i \in 1..Len(cfg) |-> IF cfg[i].upload_required THEN None ELSE cfg[i].name],
              LAMBDA n : n # None)

\* available_agents: names of config["agents"], in order, kept when
\* not (upload_required and not upload_state)
RECURSIVE available_agents(_, _)
available_agents(cfg, upload_state) ==
    IF cfg = <<>> THEN <<>>
    ELSE (IF ~(Head(cfg).upload_required /\ ~upload_state)
          THEN <<Head(cfg).name>> ELSE <<>>)
         \o available_agents(Tail(cfg), upload_state)

\* variant: an answer without a tool call selects DEFAULT_AGENT
get_delegator_response_default(upload_state, tool_calls) ==
    [NoCall EXCEPT !.op = "get_delegator_response",
                   !.upload_state = upload_state,
                   !.tool_calls = tool_calls,
                   !.available_agents = available_agents(config, upload_state),
                   !.llm_calls = 1,
                   !.kind = "return",
                   !.agent = IF tool_calls = <<>> THEN DEFAULT_AGENT ELSE tool_calls[1]]

\* tool_calls: the structured choices of the model's answer, each the
\* value of args["agent"]
get_delegator_response(upload_state, tool_calls) ==
    LET call == [NoCall EXCEPT !.op = "get_delegator_response",
                               !.upload_state = upload_state,
                               !.tool_calls = tool_calls,
                               !.available_agents = available_agents(config, upload_state),
                               !.llm_calls = 1]
    IN  IF tool_calls = <<>>
        THEN [call EXCEPT !.kind = "raise", !.exc = "ValueError"]
        ELSE [call EXCEPT !.kind = "return", !.agent = tool_calls[1]]

\* variant: no try/except around agent.chat
delegate_chat_unguarded(agent_name, fault) ==
    LET call == [NoCall EXCEPT !.op = "delegate_chat", !.agent_name = agent_name,
                               !.method_name = "chat"]
    IN  IF agent_name \in DOMAIN agents
        THEN LET out == Invoke(agents[agent_name], "chat", fault)
                 done == [call EXCEPT !.invoked =
                            <<[agent |-> agent_name, method |-> "chat", out |-> out]>>]
             IN  IF out.kind = "return"
                 THEN [done EXCEPT !.kind = "return", !.agent = agent_name,
                                   !.result = out.result]
                 ELSE [done EXCEPT !.kind = "raise", !.exc = out.exc]
        ELSE [call EXCEPT !.kind = "return",
                          !.error = "No such agent registered", !.status = 400]

delegate_chat(agent_name, fault) ==
    LET call == [NoCall EXCEPT !.op = "delegate_chat", !.agent_name = agent_name,
                               !.method_name = "chat"]
    IN  IF agent_name \in DOMAIN agents
        THEN LET out == Invoke(agents[agent_name], "chat", fault)
                 done == [call EXCEPT !.invoked =
                            <<[agent |-> agent_name, method |-> "chat", out |-> out]>>]
             IN  IF out.kind = "return"
                 THEN [done EXCEPT !.kind = "return", !.agent = agent_name,
                                   !.result = out.result]
                 ELSE [done EXCEPT !.kind = "return",
                                   !.error = "Chat delegation failed", !.status = 500]
        ELSE [call EXCEPT !.kind = "return",
                          !.error = "No such agent registered", !.status = 400]

\* variant: an unknown agent name is served by some registered agent
delegate_route_fallback(agent_name, method_name, fault) ==
    LET call == [NoCall EXCEPT !.op = "delegate_route", !.agent_name = agent_name,
                               !.method_name = method_name]
        name == IF agent_name \in DOMAIN agents \/ DOMAIN agents = {} THEN agent_name
                ELSE CHOOSE n \in DOMAIN agents : TRUE
    IN  IF name \in DOMAIN agents
        THEN IF HasAttr(agents[name], method_name)
             THEN LET out == Invoke(agents[name], method_name, fault)
                      done == [call EXCEPT !.invoked =
                                 IF out.called
                                 THEN <<[agent |-> name, method |-> method_name,
                                         out |-> out]>>
                                 ELSE <<>>]
                  IN  IF out.kind = "return"
                      THEN [done EXCEPT !.kind = "return", !.result = out.result]
                      ELSE [done EXCEPT !.kind = "raise", !.exc = out.exc]
             ELSE [call EXCEPT !.kind = "return",
                               !.error = "No such method", !.status = 400]
        ELSE [call EXCEPT !.kind = "return",
                          !.error = "No such agent registered", !.status = 400]

delegate_route(agent_name, method_name, fault) ==
    LET call == [NoCall EXCEPT !.op = "delegate_route", !.agent_name = agent_name,
                               !.method_name = method_name]
    IN  IF agent_name \in DOMAIN agents
        THEN IF HasAttr(agents[agent_name], method_name)
             THEN LET out == Invoke(agents[agent_name], method_name, fault)
                      done == [call EXCEPT !.invoked =
                                 IF out.called
                                 THEN <<[agent |-> agent_name, method |-> method_name,
                                         out |-> out]>>
                                 ELSE <<>>]
                  IN  IF out.kind = "return"
                      THEN [done EXCEPT !.kind = "return", !.result = out.result]
                      ELSE [done EXCEPT !.kind = "raise", !.exc = out.exc]
             ELSE [call EXCEPT !.kind = "return",
                               !.error = "No such method", !.status = 400]
        ELSE [call EXCEPT !.kind = "return",
                          !.error = "No such agent registered", !.status = 400]

\* arguments the callers may pass
AgentArgs == Names \cup {UNKNOWN_NAME, None}
MethodArgs == {"chat", "handle_request", "config", "no_such_method"}
ToolCalls == {<<>>} \cup { <<n>> : n \in AgentArgs }

\* --------------------------------------------------- RealtimeSearchAgent
NO_TERM_MESSAGE == "Web search failed. Please provide a search term."
Terms == {"btc price", "eth news"}
HttpOutcomes == {"ok", "RequestException", "Exception"}
LlmOutcomes == {"ok", "Exception"}

NoSearchCall ==
    [op |-> "init", term |-> None, last_before |-> None, http_calls |-> 0,
     url_term |-> None, searched |-> FALSE, search_results |-> None, llm_calls |-> 0,
     kind |-> "none", exc |-> None, value |-> None, status |-> 0]

\* variant: the term is remembered only once its request has succeeded
perform_search_on_success(search_term, http) ==
    LET call == [NoSearchCall EXCEPT !.op = "perform_search", !.term = search_term,
                                     !.searched = TRUE,
                                     !.last_before = last_search_term]
        used == IF search_term # None THEN search_term ELSE last_search_term
    IN  IF search_term = None /\ last_search_term = None
        THEN [last |-> last_search_term,
              call |-> [call EXCEPT !.kind = "return", !.value = NO_TERM_MESSAGE]]
        ELSE LET sent == [call EXCEPT !.http_calls = 1, !.url_term = used]
             IN  CASE http = "ok" ->
                        [last |-> used,
                         call |-> [sent EXCEPT !.kind = "return", !.value = "results"]]
                   [] http = "RequestException" ->
                        [last |-> last_search_term,
                         call |-> [sent EXCEPT !.kind = "return",
                                               !.value = "Error performing web search"]]
                   [] OTHER ->
                        [last |-> last_search_term,
                         call |-> [sent EXCEPT !.kind = "raise", !.exc = "Exception"]]

\* variant: without any term the request is issued with the text "None"
perform_search_always(search_term, http) ==
    LET call == [NoSearchCall EXCEPT !.op = "perform_search", !.term = search_term,
                                     !.searched = TRUE,
                                     !.last_before = last_search_term]
        last == IF search_term # None THEN search_term ELSE last_search_term
        sent == [call EXCEPT !.http_calls = 1, !.url_term = last]
    IN  [last |-> last,
         call |-> CASE http = "ok" ->
                         [sent EXCEPT !.kind = "return", !.value = "results"]
                    [] http = "RequestException" ->
                         [sent EXCEPT !.kind = "return",
                                      !.value = "Error performing web search"]
                    [] OTHER ->
                         [sent EXCEPT !.kind = "raise", !.exc = "Exception"]]

\* perform_search(search_term); http is what requests.get / raise_for_status
\* / the parsing do: "RequestException" is caught, any other exception is
\* not. Yields the new last_search_term and the record of the call.
perform_search(search_term, http) ==
    LET call == [NoSearchCall EXCEPT !.op = "perform_search", !.term = search_term,
                                     !.last_before = last_search_term]
        last == IF search_term # None THEN search_term ELSE last_search_term
    IN  IF search_term = None /\ last_search_term = None
        THEN [last |-> last_search_term,
              call |-> [call EXCEPT !.kind = "return", !.value = NO_TERM_MESSAGE]]
        ELSE LET sent == [call EXCEPT !.http_calls = 1, !.url_term = last]
             IN  [last |-> last,
                  call |-> CASE http = "ok" ->
                                  [sent EXCEPT !.kind = "return", !.value = "results"]
                             [] http = "RequestException" ->
                                  [sent EXCEPT !.kind = "return",
                                               !.value = "Error performing web search"]
                             [] OTHER ->
                                  [sent EXCEPT !.kind = "raise", !.exc = "Exception"]]

\* chat(request): request.dict() is {} or {"prompt": {"content": content}}
search_chat(has_prompt, content, http, llm) ==
    LET call == [NoSearchCall EXCEPT !.op = "chat", !.last_before = last_search_term]
    IN  IF ~has_prompt
        THEN [last |-> last_search_term, searched |-> FALSE,
              call |-> [call EXCEPT !.kind = "return", !.value = "Missing parameters",
                                    !.status = 400]]
        ELSE LET ps == perform_search(content, http)
                 searched == [call EXCEPT !.term = content, !.searched = TRUE,
                                          !.http_calls = ps.call.http_calls,
                                          !.url_term = ps.call.url_term,
                                          !.search_results = ps.call.value]
             IN  [last |-> ps.last, searched |-> TRUE,
                  call |->
                    IF ps.call.kind = "raise"
                    THEN [searched EXCEPT !.kind = "return", !.value = "Error",
                                          !.status = 500]
                    ELSE IF llm = "ok"
                    THEN [searched EXCEPT !.llm_calls = 1, !.kind = "return",
                                          !.value = "synthesized answer"]
                    ELSE [searched EXCEPT !.llm_calls = 1, !.kind = "return",
                                          !.value = "Error", !.status = 500]]

\* -------------------------------------------------------------- DCAAgent
ASSISTANT == "assistant"
TOOL_ROLE == "role returned by tools"
ArgKeys == {"token_address", "amount", "interval_type", "strategy_id"}
\* what a function of the tools module does when called
ToolOutcomes ==
    {"ok", "ValidationError", "ExecutionError", "StrategyNotFoundError", "Exception"}
\* the keys of self.function_handlers
function_handlers ==
    {"handle_dollar_cost_average", "handle_pause_dca_strategy",
     "handle_resume_dca_strategy", "handle_cancel_dca_strategy"}

NoDcaCall ==
    [op |-> "init", func_name |-> None, args |-> {}, kind |-> "none", exc |-> None,
     key |-> None, content |-> None, role |-> None, status |-> 0,
     tool_calls |-> 0, tool_name |-> None]

\* the keyword arguments are evaluated left to right before the call: the
\* first required key absent from args raises KeyError
MissingKey(required, args) ==
    IF \E i \in 1..Len(required) : required[i] \notin args
    THEN required[CHOOSE i \in 1..Len(required) :
                     /\ required[i] \notin args
                     /\ \A j \in 1..(i - 1) : required[j] \in args]
    ELSE None

\* the body shared by the four handlers: required keys, the tools function,
\* the exception classes turned into text, the success text
Handler(call, args, required, tool_name, caught, success, tool) ==
    IF MissingKey(required, args) # None
    THEN [call EXCEPT !.kind = "raise", !.exc = "KeyError",
                      !.key = MissingKey(required, args)]
    ELSE LET called == [call EXCEPT !.tool_calls = 1, !.tool_name = tool_name]
         IN  IF tool = "ok"
             THEN [called EXCEPT !.kind = "return", !.content = success,
                                 !.role = TOOL_ROLE]
             ELSE IF tool \in caught
             THEN [called EXCEPT !.kind = "return", !.content = tool,
                                 !.role = ASSISTANT]
             ELSE [called EXCEPT !.kind = "raise", !.exc = tool]

\* variant: token_address is read with args.get
handle_dollar_cost_average_lenient(call, args, tool) ==
    Handler(call, args, <<"amount", "interval_type">>,
            "handle_create_dca_strategy", {"ValidationError", "ExecutionError"},
            "Successfully created DCA strategy", tool)

handle_dollar_cost_average(call, args, tool) ==
    Handler(call, args, <<"token_address", "amount", "interval_type">>,
            "handle_create_dca_strategy", {"ValidationError", "ExecutionError"},
            "Successfully created DCA strategy", tool)

handle_pause_dca_strategy(call, args, tool) ==
    Handler(call, args, <<"strategy_id">>, "handle_pause_dca_strategy",
            {"StrategyNotFoundError", "ExecutionError"},
            "Successfully paused strategy", tool)

handle_resume_dca_strategy(call, args, tool) ==
    Handler(call, args, <<"strategy_id">>, "handle_resume_dca_strategy",
            {"StrategyNotFoundError", "ExecutionError"},
            "Successfully resumed strategy", tool)

handle_cancel_dca_strategy(call, args, tool) ==
    Handler(call, args, <<"strategy_id">>, "handle_cancel_dca_strategy",
            {"StrategyNotFoundError", "ExecutionError"},
            "Successfully cancelled strategy", tool)

handle_function_call(call, func_name, args, tool) ==
    LET c == [call EXCEPT !.func_name = func_name, !.args = args]
    IN  CASE func_name \notin function_handlers ->
               [c EXCEPT !.kind = "return", !.content = "Error: Function not supported.",
                         !.role = ASSISTANT]
          [] func_name = "handle_dollar_cost_average" ->
               handle_dollar_cost_average(c, args, tool)
          [] func_name = "handle_pause_dca_strategy" ->
               handle_pause_dca_strategy(c, args, tool)
          [] func_name = "handle_resume_dca_strategy" ->
               handle_resume_dca_strategy(c, args, tool)
          [] func_name = "handle_cancel_dca_strategy" ->
               handle_cancel_dca_strategy(c, args, tool)

\* the model's completion: create_chat_completion raises, or the message
\* has plain content, or a tool call whose name is a list of
\* whitespace-separated words and whose arguments are JSON (or not)
Completions ==
    {[raises |-> TRUE, tool_call |-> FALSE, name |-> <<>>, json |-> TRUE, args |-> {}]}
    \cup {[raises |-> FALSE, tool_call |-> FALSE, name |-> <<>>, json |-> TRUE, args |-> {}]}
    \cup {[raises |-> FALSE, tool_call |-> TRUE, name |-> n, json |-> j, args |-> a] :
            n \in {<<>>, <<"handle_dollar_cost_average">>,
                   <<"functions", "handle_pause_dca_strategy">>,
                   <<"get_weather">>},
            j \in BOOLEAN,
            a \in {{}, {"token_address"}, {"amount", "interval_type"},
                   {"token_address", "amount", "interval_type"}, {"strategy_id"}}}

handle_request(call, completion, tool) ==
    IF completion.raises
    THEN [call EXCEPT !.kind = "raise", !.exc = "Exception"]
    ELSE IF ~completion.tool_call
    THEN [call EXCEPT !.kind = "return", !.content = "content of the message",
                      !.role = ASSISTANT]
    ELSE IF completion.name = <<>> \/ ~completion.json
    THEN [call EXCEPT !.kind = "return", !.content = "Error processing request",
                      !.role = ASSISTANT]
    ELSE LET func_name == completion.name[Len(completion.name)]
             r == handle_function_call(call, func_name, completion.args, tool)
         IN  IF r.kind = "raise"
             THEN [r EXCEPT !.kind = "return", !.content = "Error processing request",
                            !.role = ASSISTANT]
             ELSE r

\* chat(request): request.get_json() raises, or data is falsy, without
\* 'prompt', or with a prompt
dca_chat(call, data, completion, tool) ==
    CASE data = "raises" ->
           [call EXCEPT !.kind = "return", !.content = "error", !.status = 500]
      [] data = "empty" ->
           [call EXCEPT !.kind = "return", !.content = "Invalid request data",
                        !.status = 400]
      [] data = "no prompt" ->
           [call EXCEPT !.kind = "return", !.content = "Missing required parameters",
                        !.status = 400]
      [] OTHER ->
           LET r == handle_request(call, completion, tool)
           IN  IF r.kind = "raise"
               THEN [r EXCEPT !.kind = "return", !.content = "error", !.status = 500]
               ELSE r

\* ------------------------------------------------------------------ specs
DelegatorIdle ==
    /\ config = <<>>
    /\ constructs = <<>>
    /\ agents = EmptyRegistry
    /\ ret = NoCall

SearchIdle ==
    /\ last_search_term = None
    /\ terms_passed = <<>>
    /\ sret = NoSearchCall

DcaIdle == dret = NoDcaCall

Init ==
    /\ config \in Configs
    /\ constructs \in [1..Len(config) -> BOOLEAN]
    /\ agents = load_agents(config, constructs)
    /\ ret = NoCall
    /\ SearchIdle
    /\ DcaIdle

GetDelegatorResponse ==
    /\ \E upload_state \in BOOLEAN, tool_calls \in ToolCalls :
          ret' = get_delegator_response(upload_state, tool_calls)
    /\ UNCHANGED <<config, constructs, agents>>
    /\ UNCHANGED <<search_vars, dret>>

DelegateChat ==
    /\ \E agent_name \in AgentArgs, fault \in BOOLEAN :
          ret' = delegate_chat(agent_name, fault)
    /\ UNCHANGED <<config, constructs, agents>>
    /\ UNCHANGED <<search_vars, dret>>

DelegateRoute ==
    /\ \E agent_name \in AgentArgs, method_name \in MethodArgs, fault \in BOOLEAN :
          ret' = delegate_route(agent_name, method_name, fault)
    /\ UNCHANGED <<config, constructs, agents>>
    /\ UNCHANGED <<search_vars, dret>>

Next == GetDelegatorResponse \/ DelegateChat \/ DelegateRoute

Spec == Init /\ [][Next]_vars

\* one RealtimeSearchAgent instance, called directly and through chat
InitSearch == DelegatorIdle /\ SearchIdle /\ DcaIdle

PerformSearch ==
    /\ Len(terms_passed) < MaxCalls
    /\ \E search_term \in Terms \cup {None}, http \in HttpOutcomes :
          LET ps == perform_search(search_term, http)
          IN  /\ last_search_term' = ps.last
              /\ terms_passed' = Append(terms_passed, search_term)
              /\ sret' = ps.call
    /\ UNCHANGED <<delegator_vars, dret>>

SearchChat ==
    /\ Len(terms_passed) < MaxCalls
    /\ \E has_prompt \in BOOLEAN, content \in Terms \cup {None},
          http \in HttpOutcomes, llm \in LlmOutcomes :
          LET c == search_chat(has_prompt, content, http, llm)
          IN  /\ last_search_term' = c.last
              /\ terms_passed' = IF c.searched THEN Append(terms_passed, content)
                                 ELSE terms_passed
              /\ sret' = c.call
    /\ UNCHANGED <<delegator_vars, dret>>

NextSearch == PerformSearch \/ SearchChat

SpecSearch == InitSearch /\ [][NextSearch]_vars

\* one DCAAgent instance: its handlers called directly, through
\* handle_function_call, through handle_request and through chat
InitDca == DelegatorIdle /\ SearchIdle /\ DcaIdle

Op(name) == [NoDcaCall EXCEPT !.op = name]

HandleDollarCostAverage ==
    /\ \E args \in SUBSET ArgKeys, tool \in ToolOutcomes :
          dret' = handle_dollar_cost_average(
                     [Op("handle_dollar_cost_average") EXCEPT
                         !.func_name = "handle_dollar_cost_average", !.args = args],
                     args, tool)
    /\ UNCHANGED <<delegator_vars, search_vars>>

HandlePauseDcaStrategy ==
    /\ \E args \in SUBSET ArgKeys, tool \in ToolOutcomes :
          dret' = handle_pause_dca_strategy(
                     [Op("handle_pause_dca_strategy") EXCEPT
                         !.func_name = "handle_pause_dca_strategy", !.args = args],
                     args, tool)
    /\ UNCHANGED <<delegator_vars, search_vars>>

HandleResumeDcaStrategy ==
    /\ \E args \in SUBSET ArgKeys, tool \in ToolOutcomes :
          dret' = handle_resume_dca_strategy(
                     [Op("handle_resume_dca_strategy") EXCEPT
                         !.func_name = "handle_resume_dca_strategy", !.args = args],
                     args, tool)
    /\ UNCHANGED <<delegator_vars, search_vars>>

HandleCancelDcaStrategy ==
    /\ \E args \in SUBSET ArgKeys, tool \in ToolOutcomes :
          dret' = handle_cancel_dca_strategy(
                     [Op("handle_cancel_dca_strategy") EXCEPT
                         !.func_name = "handle_cancel_dca_strategy", !.args = args],
                     args, tool)
    /\ UNCHANGED <<delegator_vars, search_vars>>

HandleFunctionCall ==
    /\ \E func_name \in function_handlers \cup {"get_weather"},
          args \in SUBSET ArgKeys, tool \in ToolOutcomes :
          dret' = handle_function_call(Op("handle_function_call"), func_name, args, tool)
    /\ UNCHANGED <<delegator_vars, search_vars>>

HandleRequest ==
    /\ \E completion \in Completions, tool \in ToolOutcomes :
          dret' = handle_request(Op("handle_request"), completion, tool)
    /\ UNCHANGED <<delegator_vars, search_vars>>

DcaChat ==
    /\ \E data \in {"raises", "empty", "no prompt", "prompt"},
          completion \in Completions, tool \in ToolOutcomes :
          dret' = dca_chat(Op("chat"), data, completion, tool)
    /\ UNCHANGED <<delegator_vars, search_vars>>

NextDca ==
    \/ HandleDollarCostAverage
    \/ HandlePauseDcaStrategy
    \/ HandleResumeDcaStrategy
    \/ HandleCancelDcaStrategy
    \/ HandleFunctionCall
    \/ HandleRequest
    \/ DcaChat

SpecDca == InitDca /\ [][NextDca]_vars

\* ------------------------------------------------------ Delegator: claims
RegistryUnchanged == [][agents' = agents]_vars

\* C1: delegate_chat and delegate_route called with a name that is not a
\* key of the registry return an error result with status 400, invoke no
\* method of any agent, and the registry is never changed.
C1_UnknownAgentIsClientFault ==
    /\ [](ret.op \in {"delegate_chat", "delegate_route"}
            /\ ret.agent_name \notin DOMAIN agents
          => /\ ret.kind = "return"
             /\ ret.status = 400
             /\ ret.error # None
             /\ ret.result = NoResult
             /\ ret.invoked = <<>>)
    /\ RegistryUnchanged

C1_Witness ==
    /\ ret.op = "delegate_route"
    /\ ret.agent_name = UNKNOWN_NAME
    /\ ret.method_name = "chat"
    /\ DOMAIN agents # {}
    /\ ret.status = 400

\* C2: delegate_chat on a registered agent never raises: when the agent's
\* chat raises, the result is an error with status 500; when chat returns,
\* the result is the pair (agent name, what chat returned).
C2_ChatFaultIsServerFault ==
    ret.op = "delegate_chat" /\ ret.agent_name \in DOMAIN agents
    => /\ ret.kind = "return"
       /\ Len(ret.invoked) = 1
       /\ ret.invoked[1].agent = ret.agent_name
       /\ ret.invoked[1].method = "chat"
       /\ LET out == ret.invoked[1].out
          IN  /\ out.kind = "raise"
                  => ret.status = 500 /\ ret.error # None /\ ret.result = NoResult
              /\ out.kind = "return"
                  => /\ ret.agent = ret.agent_name
                     /\ ret.result = out.result
                     /\ ret.error = None /\ ret.status = 0

C2_Witness ==
    /\ ret.op = "delegate_chat"
    /\ ret.invoked # <<>>
    /\ ret.invoked[1].out.kind = "raise"
    /\ ret.status = 500

\* the indices of the descriptors whose upload requirement is satisfied
Satisfied(upload_state) ==
    { i \in 1..Len(config) : ~config[i].upload_required \/ upload_state }

\* C3: the candidate list of get_delegator_response is exactly the
\* configured agents, in configuration order, whose upload_required flag is
\* false or for which upload_state is true; without an upload no
\* upload-required agent is offered, with an upload every agent is.
C3_CandidatesAreSatisfiedAgents ==
    ret.op = "get_delegator_response"
    => LET av == ret.available_agents
       IN  /\ \E f \in [1..Len(av) -> 1..Len(config)] :
                 /\ \A i, j \in 1..Len(av) : i < j => f[i] < f[j]
                 /\ {f[i] : i \in 1..Len(av)} = Satisfied(ret.upload_state)
                 /\ \A i \in 1..Len(av) : av[i] = config[f[i]].name
           /\ ~ret.upload_state =>
                 \A i \in 1..Len(config) : config[i].upload_required =>
                     \A k \in 1..Len(av) : av[k] # config[i].name
           /\ ret.upload_state =>
                 av = [i \in 1..Len(config) |-> config[i].name]

C3_Witness ==
    /\ ret.op = "get_delegator_response"
    /\ ~ret.upload_state
    /\ Len(config) = 2
    /\ config[1].upload_required /\ ~config[2].upload_required
    /\ ret.available_agents = <<config[2].name>>

\* C4: when the model's answer has no tool call, get_delegator_response
\* raises, returns no agent name (no default agent), and has made exactly
\* one model call.
C4_NoChoiceIsFatal ==
    ret.op = "get_delegator_response" /\ ret.tool_calls = <<>>
    => /\ ret.kind = "raise"
       /\ ret.exc = "ValueError"
       /\ ret.agent = None
       /\ ret.llm_calls = 1

C4_Witness ==
    /\ ret.op = "get_delegator_response"
    /\ ret.tool_calls = <<>>
    /\ ret.kind = "raise"
    /\ DEFAULT_AGENT \in DOMAIN agents

\* C7: every agent name returned by get_delegator_response is a key of
\* the registry.
C7_SelectionIsRegistered ==
    ret.op = "get_delegator_response" /\ ret.kind = "return"
    => ret.agent \in DOMAIN agents

\* C8: load_agents skips a descriptor that fails to load and goes on with
\* the later ones: the registry's keys are exactly the names of the
\* descriptors that constructed, each bound to an instance of its class,
\* and no later operation changes the registry.
C8_RegistryIsLoadedDescriptors ==
    /\ [](/\ DOMAIN agents = { config[i].name : i \in { j \in 1..Len(config) : constructs[j] } }
          /\ \A i \in 1..Len(config) : constructs[i] => agents[config[i].name] = config[i].class)
    /\ [][agents' = agents /\ config' = config]_vars

C8_Witness ==
    /\ Len(config) = 2
    /\ ~constructs[1] /\ constructs[2]
    /\ config[2].name \in DOMAIN agents
    /\ ret.op = "delegate_chat"
    /\ ret.agent_name = config[2].name

\* C9: no exception raised inside the invoked agent method crosses out of
\* delegate_chat or delegate_route.
C9_NoExceptionCrossesDelegator ==
    ret.op \in {"delegate_chat", "delegate_route"} => ret.kind # "raise"

RECURSIVE LastNonNone(_)
LastNonNone(log) ==
    IF log = <<>> THEN None
    ELSE IF log[Len(log)] # None THEN log[Len(log)]
    ELSE LastNonNone(SubSeq(log, 1, Len(log) - 1))

\* C10: last_search_term is the most recent non-None term passed to
\* perform_search (None if there was none), whatever the outcome of the
\* HTTP request; a call without a term requests the remembered term and
\* leaves last_search_term unchanged.
C10_LastTermIsLatestGiven ==
    /\ [](last_search_term = LastNonNone(terms_passed))
    /\ [][(/\ terms_passed' # terms_passed
           /\ terms_passed'[Len(terms_passed')] = None
           /\ last_search_term # None)
          => /\ last_search_term' = last_search_term
             /\ sret'.http_calls = 1
             /\ sret'.url_term = last_search_term]_vars

C10_Witness ==
    /\ Len(terms_passed) = 3
    /\ terms_passed[1] # None
    /\ terms_passed[2] = None /\ terms_passed[3] = None
    /\ sret.op = "perform_search"
    /\ sret.value = "Error performing web search"
    /\ sret.url_term = terms_passed[1]
    /\ last_search_term = terms_passed[1]

\* ------------------------------------------------------ DCAAgent: claims
\* C5: a create-strategy call whose arguments have no token_address never
\* invokes tools.handle_create_dca_strategy and produces no success
\* message; handle_dollar_cost_average (also when reached through
\* handle_function_call) fails with the KeyError of the missing argument.
C5_MissingTokenAddressFails ==
    dret.func_name = "handle_dollar_cost_average" /\ "token_address" \notin dret.args
    => /\ dret.tool_calls = 0
       /\ dret.tool_name = None
       /\ dret.content # "Successfully created DCA strategy"
       /\ dret.op \in {"handle_dollar_cost_average", "handle_function_call"}
            => dret.kind = "raise" /\ dret.exc = "KeyError"
                 /\ dret.key = "token_address"

C5_Witness ==
    /\ dret.op = "handle_dollar_cost_average"
    /\ dret.args = {"amount", "interval_type"}
    /\ dret.kind = "raise"
    /\ dret.exc = "KeyError"
====
